---------------------------- MODULE Spec2Model ----------------------------
(***************************************************************************)
(* Two command-line utilities of the repository:                           *)
(*   base64_decoder.py            base64_input.txt -> decoded_file.gcode   *)
(*   slicer_service/examples/client.py   model file -> POST /slice ->      *)
(*                                       JSON -> G-code file               *)
(* Text is modelled as a sequence of code points, binary data as a         *)
(* sequence of bytes 0..255.  An optional value (a file that may not       *)
(* exist, a JSON member that may be missing) is a sequence of length 0     *)
(* or 1.                                                                   *)
(* The utilities share nothing and are never composed: each has its own    *)
(* specification, DecoderSpec and ClientSpec, in which the other is idle.  *)
(***************************************************************************)
EXTENDS Integers, Sequences, FiniteSets, TLC

VARIABLES
    \* ---- base64_decoder.py ----
    d_pc,               \* position of the script
    base64_input_txt,   \* file base64_input.txt: <<>> (absent) or <<text>>
    decoded_file_gcode, \* file decoded_file.gcode: <<>> (absent) or <<bytes>>
    d_orig,             \* decoded_file.gcode as it was before the run
    d_writable,         \* whether decoded_file.gcode can be opened for writing
    payload,            \* <<B>> when base64_input.txt was produced by encoding B
    base64_string,      \* the script's variable of that name
    decoded_bytes,      \* the script's variable of that name
    d_exc,              \* the uncaught exception that ended the script, or "none"
    \* ---- client.py ----
    pc,                 \* position of the client
    argc,               \* len(sys.argv)
    model_exists,       \* whether the model file can be opened for reading
    model_opened,       \* whether the model file has been opened
    out_writable,       \* whether the output file can be opened for writing
    output_file,        \* the output file: <<>> (absent) or <<bytes>>
    orig_output,        \* the output file as it was before the run
    requests,           \* the HTTP requests sent so far
    response,           \* <<>> or <<the HTTP response received>>
    gcode_bytes,        \* <<>> or <<the decoded G-code>>
    stdout,             \* what has been printed
    exc,                \* the uncaught exception that ended the run, or "none"
    exit_code           \* <<>> while running, else <<exit status>>

dvars == <<d_pc, base64_input_txt, decoded_file_gcode, d_orig, d_writable,
           payload, base64_string, decoded_bytes, d_exc>>
cvars == <<pc, argc, model_exists, model_opened, out_writable, output_file,
           orig_output, requests, response, gcode_bytes, stdout, exc, exit_code>>
vars == <<dvars, cvars>>

(***************************************************************************)
(* Bounds of the model.                                                    *)
(***************************************************************************)
MaxStrLen == 4      \* longest arbitrary text tried as base64_input.txt
MaxBytes == 3       \* longest byte sequence encoded for the round trip
MaxWs == 1          \* most whitespace put on each side of an encoding
MaxGcodeLen == 4    \* longest gcode member of a response body

RECURSIVE SeqsUpTo(_, _)
SeqsUpTo(S, n) ==
    IF n = 0 THEN {<<>>}
    ELSE LET shorter == SeqsUpTo(S, n - 1)
         IN  shorter \cup {Append(s, x) : s \in shorter, x \in S}

(***************************************************************************)
(* str.strip(): Python removes leading and trailing whitespace.            *)
(***************************************************************************)
IsSpace(c) == c \in {9, 10, 11, 12, 13, 28, 29, 30, 31, 32, 133, 160}

RECURSIVE lstrip(_)
lstrip(s) ==
    IF Len(s) > 0 /\ IsSpace(s[1]) THEN lstrip(Tail(s)) ELSE s

RECURSIVE rstrip(_)
rstrip(s) ==
    IF Len(s) > 0 /\ IsSpace(s[Len(s)])
    THEN rstrip(SubSeq(s, 1, Len(s) - 1)) ELSE s

strip(s) == rstrip(lstrip(s))

(***************************************************************************)
(* base64.b64decode(s) with its default validate=False.  A str argument    *)
(* is first encoded as ASCII (ValueError on a code point above 127); then  *)
(* binascii.a2b_base64 runs in its non-strict mode: characters outside     *)
(* the alphabet are skipped, a completed pad sequence ends the parse, and  *)
(* a quad left open at the end of the data is an error (binascii.Error).   *)
(***************************************************************************)
IsB64Char(c) ==
    \/ c \in 65..90 \/ c \in 97..122 \/ c \in 48..57 \/ c = 43 \/ c = 47

table_a2b_base64(c) ==
    IF c \in 65..90 THEN c - 65
    ELSE IF c \in 97..122 THEN c - 71
    ELSE IF c \in 48..57 THEN c + 4
    ELSE IF c = 43 THEN 62
    ELSE 63

DecodeFailure(e) == [ok |-> FALSE, err |-> e, bytes |-> <<>>]
DecodeSuccess(b) == [ok |-> TRUE, err |-> "none", bytes |-> b]

RECURSIVE a2b_base64(_, _, _, _, _, _)
a2b_base64(s, i, quad_pos, leftchar, pads, bin_data) ==
    IF i > Len(s) THEN
        IF quad_pos # 0 THEN DecodeFailure("binascii.Error")
        ELSE DecodeSuccess(bin_data)
    ELSE IF s[i] = 61 THEN
        IF quad_pos >= 2 /\ quad_pos + pads + 1 >= 4
        THEN DecodeSuccess(bin_data)
        ELSE a2b_base64(s, i + 1, quad_pos, leftchar,
                        IF quad_pos >= 2 THEN pads + 1 ELSE pads, bin_data)
    ELSE IF ~IsB64Char(s[i]) THEN
        a2b_base64(s, i + 1, quad_pos, leftchar, pads, bin_data)
    ELSE LET this_ch == table_a2b_base64(s[i]) IN
        CASE quad_pos = 0 ->
                a2b_base64(s, i + 1, 1, this_ch, 0, bin_data)
          [] quad_pos = 1 ->
                a2b_base64(s, i + 1, 2, this_ch % 16, 0,
                           Append(bin_data, (leftchar * 4 + this_ch \div 16) % 256))
          [] quad_pos = 2 ->
                a2b_base64(s, i + 1, 3, this_ch % 4, 0,
                           Append(bin_data, (leftchar * 16 + this_ch \div 4) % 256))
          [] OTHER ->
                a2b_base64(s, i + 1, 0, 0, 0,
                           Append(bin_data, (leftchar * 64 + this_ch) % 256))

b64decode(s) ==
    IF \E i \in 1..Len(s) : s[i] > 127 THEN DecodeFailure("ValueError")
    ELSE a2b_base64(s, 1, 0, 0, 0, <<>>)

(***************************************************************************)
(* Reference definitions the properties are stated with: the standard      *)
(* base64 encoding of a byte sequence (RFC 4648, with padding), and what   *)
(* it is for a text to be validly encoded.                                 *)
(***************************************************************************)
B64Alphabet(v) ==
    IF v < 26 THEN 65 + v
    ELSE IF v < 52 THEN 71 + v
    ELSE IF v < 62 THEN v - 4
    ELSE IF v = 62 THEN 43
    ELSE 47

RECURSIVE StdEncode(_)
StdEncode(B) ==
    IF Len(B) = 0 THEN <<>>
    ELSE IF Len(B) = 1 THEN
        <<B64Alphabet(B[1] \div 4), B64Alphabet((B[1] % 4) * 16), 61, 61>>
    ELSE IF Len(B) = 2 THEN
        <<B64Alphabet(B[1] \div 4),
          B64Alphabet((B[1] % 4) * 16 + B[2] \div 16),
          B64Alphabet((B[2] % 16) * 4), 61>>
    ELSE
        <<B64Alphabet(B[1] \div 4),
          B64Alphabet((B[1] % 4) * 16 + B[2] \div 16),
          B64Alphabet((B[2] % 16) * 4 + B[3] \div 64),
          B64Alphabet(B[3] % 64)>> \o StdEncode(SubSeq(B, 4, Len(B)))

\* Some character of s is neither of the alphabet nor the pad character.
HasForeignChar(s) == \E i \in 1..Len(s) : ~IsB64Char(s[i]) /\ s[i] # 61

\* The pad characters of s: at most two, at the very end, filling the
\* length to a multiple of four with at least two data characters before.
NPads(s) == Cardinality({i \in 1..Len(s) : s[i] = 61})
PaddingRight(s) ==
    /\ Len(s) % 4 = 0
    /\ NPads(s) <= 2
    /\ \A i \in 1..Len(s) : s[i] = 61 => i > Len(s) - NPads(s)

\* s is well formed: alphabet and padding.
WellFormed(s) == ~HasForeignChar(s) /\ PaddingRight(s)

(***************************************************************************)
(* base64_decoder.py                                                       *)
(***************************************************************************)
SampleChars == {81, 61, 33, 32, 233}     \* Q = ! space e-acute
WsChars == {32, 10}                      \* space, newline
ByteSet == {0, 71, 255}
OldContents == {<<>>, <<<<49, 50>>>>}    \* absent, or holding "12"

SampleTexts == SeqsUpTo(SampleChars, MaxStrLen)
ByteSeqs == SeqsUpTo(ByteSet, MaxBytes)
WsSeqs == SeqsUpTo(WsChars, MaxWs)

DInit ==
    /\ d_pc = "read"
    /\ \/ /\ payload = <<>>
          /\ base64_input_txt \in {<<>>} \cup {<<t>> : t \in SampleTexts}
       \/ \E B \in ByteSeqs, l \in WsSeqs, t \in WsSeqs :
             /\ payload = <<B>>
             /\ base64_input_txt = <<l \o StdEncode(B) \o t>>
    /\ d_orig \in OldContents
    /\ decoded_file_gcode = d_orig
    /\ d_writable \in BOOLEAN
    /\ base64_string = <<>>
    /\ decoded_bytes = <<>>
    /\ d_exc = "none"

\* lines 4-5: with open("base64_input.txt", "r") as f: f.read().strip()
ReadInput ==
    /\ d_pc = "read"
    /\ IF base64_input_txt = <<>>
       THEN /\ d_pc' = "failed"
            /\ d_exc' = "IOError"
            /\ UNCHANGED base64_string
       ELSE /\ d_pc' = "decode"
            /\ base64_string' = strip(base64_input_txt[1])
            /\ UNCHANGED d_exc
    /\ UNCHANGED <<base64_input_txt, decoded_file_gcode, d_orig, d_writable,
                   payload, decoded_bytes>>
    /\ UNCHANGED cvars

\* Decode as it would be with the output file opened ("wb") before the
\* decoding: the file is created or truncated whatever the decoding does.
DecodeAfterOpen ==
    /\ d_pc = "decode"
    /\ decoded_file_gcode' = IF d_writable THEN <<<<>>>> ELSE decoded_file_gcode
    /\ LET r == b64decode(base64_string) IN
       IF r.ok
       THEN /\ d_pc' = "write"
            /\ decoded_bytes' = r.bytes
            /\ UNCHANGED d_exc
       ELSE /\ d_pc' = "failed"
            /\ d_exc' = r.err
            /\ UNCHANGED decoded_bytes
    /\ UNCHANGED <<base64_input_txt, d_orig, d_writable, payload, base64_string>>
    /\ UNCHANGED cvars

\* line 8: decoded_bytes = base64.b64decode(base64_string)
Decode ==
    /\ d_pc = "decode"
    /\ LET r == b64decode(base64_string) IN
       IF r.ok
       THEN /\ d_pc' = "write"
            /\ decoded_bytes' = r.bytes
            /\ UNCHANGED d_exc
       ELSE /\ d_pc' = "failed"
            /\ d_exc' = r.err
            /\ UNCHANGED decoded_bytes
    /\ UNCHANGED <<base64_input_txt, decoded_file_gcode, d_orig, d_writable,
                   payload, base64_string>>
    /\ UNCHANGED cvars

\* WriteOutput as it would be with the file opened in append mode ("ab").
WriteOutputAppend ==
    /\ d_pc = "write"
    /\ IF d_writable
       THEN /\ d_pc' = "done"
            /\ decoded_file_gcode' =
                  IF decoded_file_gcode = <<>> THEN <<decoded_bytes>>
                  ELSE <<decoded_file_gcode[1] \o decoded_bytes>>
            /\ UNCHANGED d_exc
       ELSE /\ d_pc' = "failed"
            /\ d_exc' = "IOError"
            /\ UNCHANGED decoded_file_gcode
    /\ UNCHANGED <<base64_input_txt, d_orig, d_writable, payload,
                   base64_string, decoded_bytes>>
    /\ UNCHANGED cvars

\* lines 11-12: with open("decoded_file.gcode", "wb") as f: f.write(...)
WriteOutput ==
    /\ d_pc = "write"
    /\ IF d_writable
       THEN /\ d_pc' = "done"
            /\ decoded_file_gcode' = <<decoded_bytes>>
            /\ UNCHANGED d_exc
       ELSE /\ d_pc' = "failed"
            /\ d_exc' = "IOError"
            /\ UNCHANGED decoded_file_gcode
    /\ UNCHANGED <<base64_input_txt, d_orig, d_writable, payload,
                   base64_string, decoded_bytes>>
    /\ UNCHANGED cvars

(***************************************************************************)
(* slicer_service/examples/client.py                                       *)
(*                                                                         *)
(* A response body is text that is not JSON ("notjson"), a JSON value      *)
(* that is not an object ("nonobject"), or a JSON object, of which the     *)
(* members the client reads are kept: job_id, stats and gcode, each        *)
(* optional.  Of a statistic only the type of its value is kept, which is  *)
(* what its format specification depends on.                               *)
(***************************************************************************)
DefaultServerUrl == "http://localhost:8080"    \* default of server_url
ArgcValues == {1, 2, 3, 4}           \* script name plus 0 to 3 arguments
StatusCodes == {200, 201, 500}
GcodeChars == {81, 61}               \* Q =
TextKinds == {"absent", "str"}
NumberKinds == {"absent", "num", "str"}

StatsObjects ==
    [estimated_print_time : TextKinds, total_used_filament : NumberKinds,
     total_weight : NumberKinds, total_cost : NumberKinds]

GcodeValues ==
    {[isstr |-> FALSE, text |-> <<>>]} \cup
    {[isstr |-> TRUE, text |-> t] : t \in SeqsUpTo(GcodeChars, MaxGcodeLen)}

NoMembers == [job_id |-> <<>>, stats |-> <<>>, gcode |-> <<>>]

Bodies ==
    {[kind |-> "notjson", json |-> NoMembers],
     [kind |-> "nonobject", json |-> NoMembers]} \cup
    {[kind |-> "object", json |-> [job_id |-> j, stats |-> s, gcode |-> g]] :
        j \in {<<>>, <<"abc">>},
        s \in {<<>>} \cup {<<o>> : o \in StatsObjects},
        g \in {<<>>} \cup {<<v>> : v \in GcodeValues}}

Responses == [status_code : StatusCodes, body : Bodies]

Printed(tag) == \E i \in 1..Len(stdout) : stdout[i].tag = tag
PrintedWith(tag, v) ==
    \E i \in 1..Len(stdout) : stdout[i].tag = tag /\ stdout[i].val = v
Line(tag, v) == [tag |-> tag, val |-> v]

\* An uncaught exception: the interpreter prints the traceback and the
\* process ends with status 1.
Raise(e) == /\ exc' = e /\ exit_code' = <<1>> /\ pc' = "exited"

CInit ==
    /\ pc = "main"
    /\ argc \in ArgcValues
    /\ model_exists \in BOOLEAN
    /\ model_opened = FALSE
    /\ out_writable \in BOOLEAN
    /\ orig_output \in OldContents
    /\ output_file = orig_output
    /\ requests = <<>>
    /\ response = <<>>
    /\ gcode_bytes = <<>>
    /\ stdout = <<>>
    /\ exc = "none"
    /\ exit_code = <<>>

\* Main as it would be with the check len(sys.argv) < 2.
MainOffByOne ==
    /\ pc = "main"
    /\ IF argc < 2
       THEN /\ stdout' = stdout \o <<Line("Usage", <<>>), Line("Example", <<>>)>>
            /\ exit_code' = <<1>>
            /\ pc' = "exited"
       ELSE /\ pc' = "open"
            /\ UNCHANGED <<stdout, exit_code>>
    /\ UNCHANGED <<argc, model_exists, model_opened, out_writable, output_file,
                   orig_output, requests, response, gcode_bytes, exc>>
    /\ UNCHANGED dvars

\* lines 65-72: the usage check of __main__
Main ==
    /\ pc = "main"
    /\ IF argc < 3
       THEN /\ stdout' = stdout \o <<Line("Usage", <<>>), Line("Example", <<>>)>>
            /\ exit_code' = <<1>>
            /\ pc' = "exited"
       ELSE /\ pc' = "open"
            /\ UNCHANGED <<stdout, exit_code>>
    /\ UNCHANGED <<argc, model_exists, model_opened, out_writable, output_file,
                   orig_output, requests, response, gcode_bytes, exc>>
    /\ UNCHANGED dvars

\* OpenModel as it would be if the file were not opened before the request
\* is built: a missing model file goes unnoticed.
OpenModelUnchecked ==
    /\ pc = "open"
    /\ stdout' = Append(stdout, Line("Loading model", <<>>))
    /\ model_opened' = model_exists
    /\ pc' = "post"
    /\ UNCHANGED <<exc, exit_code>>
    /\ UNCHANGED <<argc, model_exists, out_writable, output_file, orig_output,
                   requests, response, gcode_bytes>>
    /\ UNCHANGED dvars

\* lines 20-23: print the path, open(model_path, 'rb')
OpenModel ==
    /\ pc = "open"
    /\ stdout' = Append(stdout, Line("Loading model", <<>>))
    /\ IF model_exists
       THEN /\ model_opened' = TRUE
            /\ pc' = "post"
            /\ UNCHANGED <<exc, exit_code>>
       ELSE /\ Raise("IOError")
            /\ UNCHANGED model_opened
    /\ UNCHANGED <<argc, model_exists, out_writable, output_file, orig_output,
                   requests, response, gcode_bytes>>
    /\ UNCHANGED dvars

SliceRequest(server_url) ==
    [method |-> "POST", url |-> server_url \o "/slice",
     files |-> <<"model">>, data |-> <<"config">>]

\* Post as it would be with the request repeated after a response whose
\* status is not 200.
PostRetry ==
    /\ pc = "post"
    /\ stdout' = Append(stdout, Line("Sending to", <<DefaultServerUrl \o "/slice">>))
    /\ requests' = Append(requests, SliceRequest(DefaultServerUrl))
    /\ \/ /\ Raise("TransportError")
          /\ UNCHANGED response
       \/ \E r \in Responses :
             /\ response' = <<r>>
             /\ pc' = IF r.status_code = 200 THEN "status" ELSE "post"
             /\ UNCHANGED <<exc, exit_code>>
    /\ UNCHANGED <<argc, model_exists, model_opened, out_writable, output_file,
                   orig_output, gcode_bytes>>
    /\ UNCHANGED dvars

\* Post as it would be with the transport's exception caught and reported
\* like a bad status: print an error, sys.exit(1).
PostCatching ==
    /\ pc = "post"
    /\ requests' = Append(requests, SliceRequest(DefaultServerUrl))
    /\ \/ /\ stdout' = stdout \o <<Line("Sending to", <<DefaultServerUrl \o "/slice">>),
                                   Line("Error", <<0>>)>>
          /\ exit_code' = <<1>>
          /\ pc' = "exited"
          /\ UNCHANGED <<response, exc>>
       \/ \E r \in Responses :
             /\ stdout' = Append(stdout, Line("Sending to", <<DefaultServerUrl \o "/slice">>))
             /\ response' = <<r>>
             /\ pc' = "status"
             /\ UNCHANGED <<exc, exit_code>>
    /\ UNCHANGED <<argc, model_exists, model_opened, out_writable, output_file,
                   orig_output, gcode_bytes>>
    /\ UNCHANGED dvars

\* lines 24-40: build the request, print, requests.post(...).  The call
\* returns the service's response or raises when the transport fails.
Post ==
    /\ pc = "post"
    /\ stdout' = Append(stdout, Line("Sending to", <<DefaultServerUrl \o "/slice">>))
    /\ requests' = Append(requests, SliceRequest(DefaultServerUrl))
    /\ \/ /\ Raise("TransportError")
          /\ UNCHANGED response
       \/ \E r \in Responses :
             /\ response' = <<r>>
             /\ pc' = "status"
             /\ UNCHANGED <<exc, exit_code>>
    /\ UNCHANGED <<argc, model_exists, model_opened, out_writable, output_file,
                   orig_output, gcode_bytes>>
    /\ UNCHANGED dvars

\* lines 42-45: the status check; response.json() raises on a body that
\* is not JSON
CheckStatus ==
    /\ pc = "status"
    /\ LET r == response[1] IN
       IF r.status_code # 200
       THEN IF r.body.kind = "notjson"
            THEN /\ stdout' = Append(stdout, Line("Error", <<r.status_code>>))
                 /\ Raise("JSONDecodeError")
            ELSE /\ stdout' = stdout \o <<Line("Error", <<r.status_code>>),
                                          Line("body", <<r.body>>)>>
                 /\ exit_code' = <<1>>
                 /\ pc' = "exited"
                 /\ UNCHANGED exc
       ELSE /\ pc' = "stats"
            /\ UNCHANGED <<stdout, exc, exit_code>>
    /\ UNCHANGED <<argc, model_exists, model_opened, out_writable, output_file,
                   orig_output, requests, response, gcode_bytes>>
    /\ UNCHANGED dvars

\* What lines 47-55 print and how they end: each line is printed only if
\* every value it formats is there and accepts its format specification.
StatsLines(body) ==
    IF body.kind = "notjson" THEN [out |-> <<>>, err |-> "JSONDecodeError"]
    ELSE IF body.kind = "nonobject" THEN [out |-> <<>>, err |-> "TypeError"]
    ELSE IF body.json.stats = <<>> THEN [out |-> <<>>, err |-> "KeyError"]
    ELSE LET stats == body.json.stats[1]
             l1 == <<Line("Slicing completed", <<>>)>>
             l2 == Append(l1, Line("Job ID", body.json.job_id))
             l3 == Append(l2, Line("Print Time", <<stats.estimated_print_time>>))
             l4 == Append(l3, Line("Filament", <<stats.total_used_filament,
                                                 stats.total_weight>>))
             l5 == Append(l4, Line("Cost", <<stats.total_cost>>))
         IN
         IF body.json.job_id = <<>> THEN [out |-> l1, err |-> "KeyError"]
         ELSE IF stats.estimated_print_time = "absent"
              THEN [out |-> l2, err |-> "KeyError"]
         ELSE IF stats.total_used_filament = "absent"
              THEN [out |-> l3, err |-> "KeyError"]
         ELSE IF stats.total_used_filament # "num"
              THEN [out |-> l3, err |-> "ValueError"]
         ELSE IF stats.total_weight = "absent"
              THEN [out |-> l3, err |-> "KeyError"]
         ELSE IF stats.total_weight # "num"
              THEN [out |-> l3, err |-> "ValueError"]
         ELSE IF stats.total_cost = "absent"
              THEN [out |-> l4, err |-> "KeyError"]
         ELSE IF stats.total_cost # "num"
              THEN [out |-> l4, err |-> "ValueError"]
         ELSE [out |-> l5, err |-> "none"]

\* lines 47-55: result = response.json(), print the statistics
PrintStats ==
    /\ pc = "stats"
    /\ LET p == StatsLines(response[1].body) IN
       /\ stdout' = stdout \o p.out
       /\ IF p.err = "none"
          THEN /\ pc' = "decode"
               /\ UNCHANGED <<exc, exit_code>>
          ELSE Raise(p.err)
    /\ UNCHANGED <<argc, model_exists, model_opened, out_writable, output_file,
                   orig_output, requests, response, gcode_bytes>>
    /\ UNCHANGED dvars

\* DecodeGcode as it would be with the output file opened ("wb") before
\* the decoding.
DecodeGcodeAfterOpen ==
    /\ pc = "decode"
    /\ output_file' = IF out_writable THEN <<<<>>>> ELSE output_file
    /\ LET gcode == response[1].body.json.gcode IN
       IF gcode = <<>> THEN Raise("KeyError") /\ UNCHANGED gcode_bytes
       ELSE IF ~gcode[1].isstr THEN Raise("TypeError") /\ UNCHANGED gcode_bytes
       ELSE LET r == b64decode(gcode[1].text) IN
            IF r.ok
            THEN /\ gcode_bytes' = <<r.bytes>>
                 /\ pc' = "save"
                 /\ UNCHANGED <<exc, exit_code>>
            ELSE Raise(r.err) /\ UNCHANGED gcode_bytes
    /\ UNCHANGED <<argc, model_exists, model_opened, out_writable,
                   orig_output, requests, response, stdout>>
    /\ UNCHANGED dvars

\* line 58: gcode_bytes = base64.b64decode(result['gcode'])
DecodeGcode ==
    /\ pc = "decode"
    /\ LET gcode == response[1].body.json.gcode IN
       IF gcode = <<>> THEN Raise("KeyError") /\ UNCHANGED gcode_bytes
       ELSE IF ~gcode[1].isstr THEN Raise("TypeError") /\ UNCHANGED gcode_bytes
       ELSE LET r == b64decode(gcode[1].text) IN
            IF r.ok
            THEN /\ gcode_bytes' = <<r.bytes>>
                 /\ pc' = "save"
                 /\ UNCHANGED <<exc, exit_code>>
            ELSE Raise(r.err) /\ UNCHANGED gcode_bytes
    /\ UNCHANGED <<argc, model_exists, model_opened, out_writable, output_file,
                   orig_output, requests, response, stdout>>
    /\ UNCHANGED dvars

\* SaveGcode as it would be with the file opened in append mode ('ab').
SaveGcodeAppend ==
    /\ pc = "save"
    /\ IF out_writable
       THEN /\ output_file' = IF output_file = <<>> THEN gcode_bytes
                              ELSE <<output_file[1] \o gcode_bytes[1]>>
            /\ stdout' = stdout \o <<Line("G-code saved to", <<>>),
                                     Line("Size", <<Len(gcode_bytes[1])>>)>>
            /\ exit_code' = <<0>>
            /\ pc' = "exited"
            /\ UNCHANGED exc
       ELSE /\ Raise("IOError")
            /\ UNCHANGED <<output_file, stdout>>
    /\ UNCHANGED <<argc, model_exists, model_opened, out_writable, orig_output,
                   requests, response, gcode_bytes>>
    /\ UNCHANGED dvars

\* lines 59-63: write the file, print its path and size; slice_model
\* returns and the script ends
SaveGcode ==
    /\ pc = "save"
    /\ IF out_writable
       THEN /\ output_file' = gcode_bytes
            /\ stdout' = stdout \o <<Line("G-code saved to", <<>>),
                                     Line("Size", <<Len(gcode_bytes[1])>>)>>
            /\ exit_code' = <<0>>
            /\ pc' = "exited"
            /\ UNCHANGED exc
       ELSE /\ Raise("IOError")
            /\ UNCHANGED <<output_file, stdout>>
    /\ UNCHANGED <<argc, model_exists, model_opened, out_writable, orig_output,
                   requests, response, gcode_bytes>>
    /\ UNCHANGED dvars

ClientIdle ==
    /\ pc = "idle" /\ argc = 0 /\ model_exists = FALSE /\ model_opened = FALSE
    /\ out_writable = FALSE /\ output_file = <<>> /\ orig_output = <<>>
    /\ requests = <<>> /\ response = <<>> /\ gcode_bytes = <<>>
    /\ stdout = <<>> /\ exc = "none" /\ exit_code = <<>>

DecoderIdle ==
    /\ d_pc = "idle" /\ base64_input_txt = <<>> /\ decoded_file_gcode = <<>>
    /\ d_orig = <<>> /\ d_writable = FALSE /\ payload = <<>>
    /\ base64_string = <<>> /\ decoded_bytes = <<>> /\ d_exc = "none"

DecoderInit == DInit /\ ClientIdle
DecoderNext == ReadInput \/ Decode \/ WriteOutput
DecoderSpec == DecoderInit /\ [][DecoderNext]_vars

ClientInit == CInit /\ DecoderIdle
ClientNext ==
    Main \/ OpenModel \/ Post \/ CheckStatus \/ PrintStats \/ DecodeGcode \/ SaveGcode
ClientSpec == ClientInit /\ [][ClientNext]_vars

(***************************************************************************)
(* Neither utility is stuck before it has ended.                           *)
(***************************************************************************)
ClientRuns == pc # "exited" => ENABLED ClientNext
DecoderRuns == d_pc \notin {"done", "failed"} => ENABLED DecoderNext

\* s is the standard encoding of some byte sequence: well formed, and the
\* bits of the last data character that encode nothing are zero.
IsStdEncoding(s) ==
    /\ WellFormed(s)
    /\ NPads(s) = 2 => table_a2b_base64(s[Len(s) - 2]) % 16 = 0
    /\ NPads(s) = 1 => table_a2b_base64(s[Len(s) - 1]) % 4 = 0

Received == response # <<>>
Status == response[1].status_code
Body == response[1].body
Untouched == output_file = orig_output

(***************************************************************************)
(* C1.  After a response whose status is not 200, whatever its body, the   *)
(* client has printed the status code and the body, ended with exit code   *)
(* 1, and left the output file alone.                                      *)
(***************************************************************************)
\* C1: after any response whose status is not 200 the client printed the
\* status and the body, ended with exit code 1, and left the output file alone.
C1_ErrorStatusReported ==
    (Received /\ Status # 200) =>
        /\ Untouched
        /\ pc \in {"status", "exited"}
        /\ pc = "exited" =>
              /\ exit_code = <<1>>
              /\ PrintedWith("Error", <<Status>>)
              /\ PrintedWith("body", <<Body>>)

(***************************************************************************)
(* C2.  With fewer than two arguments the client prints the usage and      *)
(* ends with exit code 1; no request is sent, the model file is not        *)
(* opened, the output file is not written.                                 *)
(***************************************************************************)
\* C2: with len(sys.argv) < 3 only the usage is printed, the exit code is 1,
\* and no request, model file or output file is touched.
C2_UsageOnly ==
    argc < 3 =>
        /\ pc \in {"main", "exited"}
        /\ requests = <<>>
        /\ ~model_opened
        /\ Untouched
        /\ pc = "exited" =>
              Printed("Usage") /\ exit_code = <<1>> /\ exc = "none"
        /\ ClientRuns

C2_Witness ==
    argc = 2 /\ pc = "exited" /\ Printed("Usage") /\ exit_code = <<1>>

(***************************************************************************)
(* C3.  A 200 response whose body has job_id, the four statistics and a    *)
(* validly encoded gcode ends, the output file being writable, with the    *)
(* output file holding exactly the bytes gcode encodes, their number       *)
(* printed as the size, and exit code 0.                                   *)
(*   As stated, for statistics of any type:  C3_AnyStatistics.             *)
(*   As amended, the three formatted statistics being numbers:             *)
(*   C3_SliceSaved.                                                        *)
(***************************************************************************)
HasAllMembers(b) ==
    /\ b.kind = "object"
    /\ b.json.job_id # <<>>
    /\ b.json.stats # <<>>
    /\ b.json.stats[1].estimated_print_time # "absent"
    /\ b.json.stats[1].total_used_filament # "absent"
    /\ b.json.stats[1].total_weight # "absent"
    /\ b.json.stats[1].total_cost # "absent"
    /\ b.json.gcode # <<>>
    /\ b.json.gcode[1].isstr
    /\ IsStdEncoding(b.json.gcode[1].text)

NumericStatistics(b) ==
    /\ b.json.stats[1].total_used_filament = "num"
    /\ b.json.stats[1].total_weight = "num"
    /\ b.json.stats[1].total_cost = "num"

Saved ==
    /\ exit_code = <<0>>
    /\ exc = "none"
    /\ output_file # <<>>
    /\ StdEncode(output_file[1]) = Body.json.gcode[1].text
    /\ PrintedWith("Size", <<Len(output_file[1])>>)

\* C3 as stated: every 200 response with job_id, four statistics of any type
\* and a valid gcode is saved, its size printed, exit code 0.
C3_AnyStatistics ==
    (Received /\ Status = 200 /\ HasAllMembers(Body) /\ out_writable) =>
        /\ pc = "exited" => Saved
        /\ ClientRuns

\* C3 as amended: the same, the three formatted statistics being numbers.
C3_SliceSaved ==
    (/\ Received /\ Status = 200 /\ HasAllMembers(Body)
     /\ NumericStatistics(Body) /\ out_writable) =>
        /\ pc = "exited" => Saved
        /\ ClientRuns

C3_Witness ==
    /\ pc = "exited" /\ exit_code = <<0>>
    /\ Received /\ Status = 200 /\ HasAllMembers(Body)
    /\ orig_output = <<<<49, 50>>>>
    /\ output_file = <<<<65, 4>>>>
    /\ PrintedWith("Size", <<2>>)

(***************************************************************************)
(* C4.  Round trip of the decoder: base64_input.txt holding the standard   *)
(* encoding of B, possibly between whitespace, the decoder does not fail   *)
(* to decode, and it ends with decoded_file.gcode holding exactly B,       *)
(* whatever it held; its only failure is that decoded_file.gcode cannot    *)
(* be opened.                                                              *)
(***************************************************************************)
\* C4: the encoding of B, between whitespace or not, is decoded to exactly B,
\* replacing what decoded_file.gcode held.
C4_RoundTrip ==
    payload # <<>> =>
        /\ d_pc = "done" => decoded_file_gcode = payload
        /\ d_pc = "failed" => (d_exc = "IOError" /\ ~d_writable)
        /\ d_pc = "write" => decoded_bytes = payload[1]
        /\ DecoderRuns

C4_Witness ==
    /\ d_pc = "done"
    /\ payload = <<<<71, 255, 0>>>>
    /\ Len(base64_input_txt[1]) = 6
    /\ d_orig = <<<<49, 50>>>>
    /\ decoded_file_gcode = <<<<71, 255, 0>>>>

(***************************************************************************)
(* C5.  The decoder fails whenever the stripped content of                 *)
(* base64_input.txt has a character outside the alphabet or wrong          *)
(* padding: no such input is decoded.                                      *)
(***************************************************************************)
\* C5: every input that is not well formed base64 ends the decoder with a
\* decoding error; none is decoded.
C5_InvalidInputRejected ==
    (d_pc \notin {"read", "decode"} /\ base64_input_txt # <<>>
        /\ ~WellFormed(base64_string)) =>
            /\ d_pc = "failed"
            /\ d_exc \in {"binascii.Error", "ValueError"}

(***************************************************************************)
(* C6.  A run sends at most one request, a POST to                         *)
(* http://localhost:8080/slice, and none after a response or a failure.    *)
(***************************************************************************)
\* C6: at most one request, a POST to http://localhost:8080/slice, never
\* repeated.
C6_SingleRequest ==
    /\ Len(requests) <= 1
    /\ \A i \in 1..Len(requests) :
          /\ requests[i].method = "POST"
          /\ requests[i].url = "http://localhost:8080/slice"
    /\ (Received \/ exc # "none") => pc # "post"
    /\ pc \in {"status", "stats", "decode", "save"} => Len(requests) = 1

C6_Witness ==
    /\ pc = "exited" /\ Len(requests) = 1
    /\ Received /\ Status = 500 /\ exit_code = <<1>>

(***************************************************************************)
(* C7.  The model file missing, slice_model fails with an IOError; no      *)
(* request is sent and the output file is left as it was.                  *)
(***************************************************************************)
\* C7: without the model file the run ends with IOError, no request sent,
\* the output file as it was.
C7_MissingModel ==
    ~model_exists =>
        /\ pc \in {"main", "open", "exited"}
        /\ requests = <<>>
        /\ Untouched
        /\ (pc = "exited" /\ argc >= 3) =>
              exc = "IOError" /\ exit_code = <<1>>
        /\ ClientRuns

C7_Witness ==
    /\ ~model_exists /\ argc = 3 /\ pc = "exited" /\ exc = "IOError"
    /\ Printed("Loading model") /\ orig_output # <<>>

(***************************************************************************)
(* C8.  A request that got no response (the transport failed) ends the     *)
(* run with the transport error uncaught: the status is not examined,      *)
(* nothing of a response is printed, the output file is not written.       *)
(***************************************************************************)
\* C8: a transport failure is uncaught and ends the run; no status is
\* examined and the output file is not written.
C8_TransportErrorPropagates ==
    (requests # <<>> /\ ~Received) =>
        /\ pc = "exited"
        /\ exc = "TransportError"
        /\ exit_code = <<1>>
        /\ ~Printed("Error") /\ ~Printed("body") /\ ~Printed("Slicing completed")
        /\ gcode_bytes = <<>>
        /\ Untouched

C8_Witness ==
    /\ exc = "TransportError" /\ pc = "exited" /\ Len(requests) = 1
    /\ orig_output # <<>> /\ Untouched

(***************************************************************************)
(* C9.  The decoder opens decoded_file.gcode only after decoding: until    *)
(* it is done, and whenever it fails, the file is as it was, neither       *)
(* created nor truncated.                                                  *)
(***************************************************************************)
\* C9: decoded_file.gcode is as it was until the decoder is done, so also
\* whenever reading or decoding fails.
C9_OutputKeptOnFailure ==
    d_pc # "done" => decoded_file_gcode = d_orig

C9_Witness ==
    /\ d_pc = "failed" /\ d_exc = "binascii.Error"
    /\ d_orig = <<<<49, 50>>>> /\ decoded_file_gcode = d_orig

(***************************************************************************)
(* C10.  The client opens the output file only after a 200 response was    *)
(* parsed, job_id and the four statistics printed and gcode decoded; a     *)
(* 200 response lacking one of them, or whose gcode does not decode,       *)
(* ends the run with an error and the output file as it was.               *)
(***************************************************************************)
Defective(b) ==
    \/ b.kind # "object"
    \/ b.json.job_id = <<>>
    \/ b.json.stats = <<>>
    \/ \E k \in DOMAIN b.json.stats[1] : b.json.stats[1][k] = "absent"
    \/ b.json.gcode = <<>>
    \/ ~b.json.gcode[1].isstr
    \/ ~b64decode(b.json.gcode[1].text).ok

\* C10: the output file is opened only after the 200 response was parsed,
\* printed and decoded; a defective 200 response ends in an error with the
\* output file as it was.
C10_OutputLast ==
    /\ (pc = "save" \/ ~Untouched \/ exit_code = <<0>>) =>
          /\ Received /\ Status = 200
          /\ Printed("Job ID") /\ Printed("Print Time")
          /\ Printed("Filament") /\ Printed("Cost")
          /\ gcode_bytes # <<>>
    /\ (Received /\ Status = 200 /\ Defective(Body)) =>
          /\ pc # "save"
          /\ Untouched
          /\ pc = "exited" => (exc # "none" /\ exit_code = <<1>>)
          /\ ClientRuns

C10_Witness ==
    /\ pc = "exited" /\ Received /\ Status = 200
    /\ exc = "binascii.Error"
    /\ Printed("Cost")
    /\ orig_output # <<>> /\ Untouched

=============================================================================
